---- MODULE Spec2Model ----
(***************************************************************************)
(* Model of jaxmarl/environments/mabrax/multi_quad_env.py: the MultiQuadEnv *)
(* reset/step transition function, its observation builder and its reward. *)
(*                                                                         *)
(* Reals are fixed point: every quantity of the observation (positions,    *)
(* velocities, accelerations, rotation entries, raw actions), angles and   *)
(* rewards are integers in units of 1e-3.  Thrust commands are integers in *)
(* units of 1e-8 (1e-3 of an action times 1e-5 of max_thrust).  Elapsed    *)
(* time is counted in physics substeps of length dt.                       *)
(***************************************************************************)
EXTENDS Integers, Sequences, FiniteSets, TLC

VARIABLES
  scene,            \* body names of the loaded scene, in body-id order
  payload_body_id,  \* self.payload_body_id
  q1_body_id,       \* self.q1_body_id
  q2_body_id,       \* self.q2_body_id
  phase,            \* "UNINITIALIZED", "RESET" (state from reset), "RUNNING" (state from step)
  pipeline_state,   \* State.pipeline_state: the engine snapshot
  obs,              \* State.obs
  reward,           \* State.reward
  done,             \* State.done
  metrics,          \* State.metrics
  applied,          \* the raw actions given to the last (at most two) steps since reset
  action_scaled,    \* the command the last step handed to pipeline_step
  resetLog,         \* the states reset returned per handle, and whether a handle was reused
  rw                \* one evaluation of calc_reward: its inputs and its result

vars == <<scene, payload_body_id, q1_body_id, q2_body_id, phase, pipeline_state,
          obs, reward, done, metrics, applied, action_scaled, resetLog, rw>>

envVars == <<scene, payload_body_id, q1_body_id, q2_body_id>>

(***************************************************************************)
(* Parameters of the model.                                                *)
(***************************************************************************)
policy_freq == 2            \* control steps per second
max_time == 1               \* seconds per episode
sim_steps_per_action == 1   \* physics substeps per control step
MaxSteps == 4               \* control steps explored per episode
NumKeys == 2                \* random-stream handles given to reset

_reset_noise_scale == 100   \* 0.1
max_thrust == 11772         \* 0.11772, in units of 1e-5
nu == 8                     \* sys.nu: actuators of the scene
One == 1000                 \* 1.0 in fixed point

n_frames == sim_steps_per_action
\* max_time expressed in substeps of dt = (1/policy_freq)/sim_steps_per_action
MaxTimeTicks == max_time * policy_freq * sim_steps_per_action

goal_center == <<0, 0, 1000>>
target_position == goal_center

(***************************************************************************)
(* Array helpers with Python semantics (0-based, negative indices wrap).   *)
(***************************************************************************)
PyNorm(i, n) == IF i < 0 THEN n + i ELSE i

PyIndex(arr, i) == arr[PyNorm(i, Len(arr)) + 1]

PySlice(arr, a, b) == SubSeq(arr, PyNorm(a, Len(arr)) + 1, PyNorm(b, Len(arr)))

Zeros(n) == [i \in 1..n |-> 0]

Abs(x) == IF x < 0 THEN -x ELSE x

Max(a, b) == IF a > b THEN a ELSE b

Clip(x, lo, hi) == IF x < lo THEN lo ELSE IF x > hi THEN hi ELSE x

RECURSIVE SumFrom(_, _, _)
SumFrom(s, i, n) == IF i > n THEN 0 ELSE s[i] + SumFrom(s, i + 1, n)

SumSeq(s) == SumFrom(s, 1, Len(s))

RECURSIVE DotFrom(_, _, _, _)
DotFrom(a, b, i, n) == IF i > n THEN 0 ELSE a[i] * b[i] + DotFrom(a, b, i + 1, n)

Dot(a, b) == DotFrom(a, b, 1, Len(a))

VecSub(a, b) == [i \in 1..Len(a) |-> a[i] - b[i]]

\* Heron's iteration from a start at or above the root
RECURSIVE SqrtFrom(_, _)
SqrtFrom(n, x) ==
  LET y == (x + n \div x) \div 2
  IN IF y >= x THEN x ELSE SqrtFrom(n, y)

\* floor of the square root
ISqrt(n) ==
  IF n = 0 THEN 0
  ELSE IF n < 1024 THEN SqrtFrom(n, 32)
  ELSE IF n < 65536 THEN SqrtFrom(n, 256)
  ELSE IF n < 1048576 THEN SqrtFrom(n, 1024)
  ELSE IF n < 16777216 THEN SqrtFrom(n, 4096)
  ELSE SqrtFrom(n, 46341)

\* jp.linalg.norm of a fixed-point vector
Norm(v) == ISqrt(Dot(v, v))

\* jp.mean
Mean(v) == SumSeq(v) \div Len(v)

\* jp.exp(-x) for x >= 0: exp(-k) from a table, exp(-f) by its series
ExpNegInt == <<1000, 368, 135, 50, 18, 7, 2, 1>>

ExpNeg(x) ==
  LET k == x \div One
      f == x % One
      t2 == (f * f) \div 2000
      t3 == (t2 * f) \div 3000
      t4 == (t3 * f) \div 4000
      t5 == (t4 * f) \div 5000
      frac == One - f + t2 - t3 + t4 - t5
  IN IF k >= Len(ExpNegInt) THEN 0 ELSE (ExpNegInt[k + 1] * frac) \div One

\* jp.arccos on [-1, 1]: table at steps of 0.1, linear in between
ArcCosTable == <<3142, 2691, 2498, 2346, 2214, 2094, 1982, 1875, 1772, 1671, 1571,
                 1471, 1369, 1266, 1159, 1047, 927, 795, 644, 451, 0>>

ArcCos(c) ==
  LET k == (c + One) \div 100
      r == (c + One) % 100
  IN IF k >= 20 THEN ArcCosTable[21]
     ELSE ArcCosTable[k + 1] - ((ArcCosTable[k + 1] - ArcCosTable[k + 2]) * r) \div 100

Radians80 == 1396   \* jp.radians(80)

(***************************************************************************)
(* Helper functions of the module.                                         *)
(***************************************************************************)
jp_R_from_quat(q0) ==
  LET n == Norm(q0)
      q == [i \in 1..4 |-> (q0[i] * One) \div n]
      w == q[1]
      x == q[2]
      y == q[3]
      z == q[4]
      r1 == <<One - (2 * (y*y + z*z)) \div One, (2 * (x*y - z*w)) \div One, (2 * (x*z + y*w)) \div One>>
      r2 == <<(2 * (x*y + z*w)) \div One, One - (2 * (x*x + z*z)) \div One, (2 * (y*z - x*w)) \div One>>
      r3 == <<(2 * (x*z - y*w)) \div One, (2 * (y*z + x*w)) \div One, One - (2 * (x*x + y*y)) \div One>>
  IN <<r1, r2, r3>>

\* R[:, 2]
Column2(R) == <<R[1][3], R[2][3], R[3][3]>>

\* R.ravel()
Ravel(R) == R[1] \o R[2] \o R[3]

jp_angle_between(v1, v2) ==
  LET norm1 == Norm(v1)
      norm2 == Norm(v2)
      dot == Dot(v1, v2)
      \* norm1 * norm2 and dot are in units of 1e-6, where the 1e-6 guard is 1
      cos_theta == (dot * One) \div (norm1 * norm2 + 1)
  IN ArcCos(Clip(cos_theta, -One, One))

(***************************************************************************)
(* The scene and the physics engine (external collaborators).              *)
(***************************************************************************)
\* the scene two_quad_payload.xml: the bodies the constructor looks up
ShippedScene == <<"world", "payload", "q0_cf2", "q1_cf2">>

\* scenes a model file can describe: reordered, a body renamed, a body absent
Scenes == { ShippedScene,
            <<"world", "q0_cf2", "q1_cf2", "payload">>,
            <<"world", "payload", "q0_cf2", "quad_b">>,
            <<"world", "q0_cf2", "q1_cf2">> }

BodyNames == {"world", "payload", "q0_cf2", "q1_cf2", "quad_b"}

\* mujoco.mj_name2id: the 0-based id of the named body, -1 when there is none
mj_name2id(sc, name) ==
  IF \E i \in 1..Len(sc) : sc[i] = name
  THEN (CHOOSE i \in 1..Len(sc) : sc[i] = name) - 1
  ELSE -1

IdentityQuat == <<1000, 0, 0, 0>>
TiltedQuat == <<707, 707, 0, 0>>   \* 90 degrees about x

RestBody(p, q) ==
  [pos |-> p, quat |-> q, cvel |-> Zeros(6), cacc |-> Zeros(6)]

\* One configuration of the bodies: payload hanging at height pz below two
\* agents gap apart; agent 1 tilted or agent 2 near the ground or both level;
\* everything at rest or in motion.
Scenario(pz, gap, attitude, moving) ==
  LET half == gap \div 2
      qz == pz + 200
      payload == [pos |-> <<0, 0, pz>>, quat |-> IdentityQuat,
                  cvel |-> IF moving THEN <<0, 0, 0, 100, 0, -200>> ELSE Zeros(6),
                  cacc |-> IF moving THEN <<0, 0, 0, 0, 0, -300>> ELSE Zeros(6)]
      quad1 == [pos |-> <<-half, 0, qz>>,
                quat |-> IF attitude = "tilted" THEN TiltedQuat ELSE IdentityQuat,
                cvel |-> IF moving THEN <<0, 0, 500, 0, 300, 0>> ELSE Zeros(6),
                cacc |-> IF moving THEN <<100, 0, 0, 0, 0, 200>> ELSE Zeros(6)]
      quad2 == [pos |-> <<gap - half, 0, IF attitude = "low" THEN 40 ELSE qz>>,
                quat |-> IdentityQuat,
                cvel |-> IF moving THEN <<0, 400, 0, -300, 0, 0>> ELSE Zeros(6),
                cacc |-> IF moving THEN <<0, 0, 700, 0, 100, 0>> ELSE Zeros(6)]
  IN [n \in BodyNames |->
        CASE n = "payload" -> payload
          [] n = "q0_cf2" -> quad1
          [] n \in {"q1_cf2", "quad_b"} -> quad2
          [] OTHER -> RestBody(<<0, 0, 0>>, IdentityQuat)]

Attitudes == {"level", "tilted", "low"}

\* the configurations pipeline_step can return
EngineScenarios ==
  { Scenario(800, gap, attitude, moving) :
      gap \in {100, 400}, attitude \in Attitudes, moving \in BOOLEAN }

\* the snapshot of a scene whose bodies are in configuration scen at time t
Snapshot(sc, scen, t) ==
  [xpos  |-> [i \in 1..Len(sc) |-> scen[sc[i]].pos],
   xquat |-> [i \in 1..Len(sc) |-> scen[sc[i]].quat],
   cvel  |-> [i \in 1..Len(sc) |-> scen[sc[i]].cvel],
   cacc  |-> [i \in 1..Len(sc) |-> scen[sc[i]].cacc],
   time  |-> t]

NoSnapshot == [xpos |-> <<>>, xquat |-> <<>>, cvel |-> <<>>, cacc |-> <<>>, time |-> 0]

\* sys.nq = sys.nv: one vertical coordinate per body of the scene but the world
Nq(sc) == Len(sc) - 1

\* sys.qpos0: the nominal heights
Qpos0(sc) == [i \in 1..Nq(sc) |-> IF sc[i + 1] = "payload" THEN 800 ELSE 1000]

NominalX(name) == CASE name = "q0_cf2" -> -200
                    [] name \in {"q1_cf2", "quad_b"} -> 200
                    [] OTHER -> 0

\* pipeline_init: the snapshot at time 0 of the bodies at heights qpos moving
\* vertically at qvel
pipeline_init(sc, qpos, qvel) ==
  [xpos  |-> [i \in 1..Len(sc) |->
                IF i = 1 THEN <<0, 0, 0>> ELSE <<NominalX(sc[i]), 0, qpos[i - 1]>>],
   xquat |-> [i \in 1..Len(sc) |-> IdentityQuat],
   cvel  |-> [i \in 1..Len(sc) |->
                IF i = 1 THEN Zeros(6) ELSE <<0, 0, 0, 0, 0, qvel[i - 1]>>],
   cacc  |-> [i \in 1..Len(sc) |-> Zeros(6)],
   time  |-> 0]

\* pipeline_step: n_frames substeps later the bodies are in a configuration
\* the engine chooses
pipeline_step(sc, data0, ctrl) ==
  { Snapshot(sc, scen, data0.time + n_frames) : scen \in EngineScenarios }

\* random-stream handles, jax.random.split and jax.random.uniform: pure
\* functions of the handle
Keys == 0 .. (NumKeys - 1)

RandomSplit(rng, n) == [i \in 1..n |-> (rng * 5 + i * 3) % 17]

RandomUniform(key, n, minval, maxval) ==
  [i \in 1..n |-> minval + ((key * 31 + i * 47) % (maxval - minval))]

(***************************************************************************)
(* MultiQuadEnv._get_obs                                                   *)
(***************************************************************************)
\* _get_obs with each agent's linear and angular velocity read from the
\* wrong halves of cvel
GetObsSwapped(data, last_action, target) ==
  LET payload_pos == PyIndex(data.xpos, payload_body_id)
      Block(id) ==
        VecSub(PyIndex(data.xpos, id), payload_pos)
          \o Ravel(jp_R_from_quat(PyIndex(data.xquat, id)))
          \o PySlice(PyIndex(data.cvel, id), 0, 3)
          \o PySlice(PyIndex(data.cvel, id), 3, 6)
          \o PySlice(PyIndex(data.cacc, id), 3, 6)
          \o PySlice(PyIndex(data.cacc, id), 0, 3)
  IN VecSub(target, payload_pos)
       \o PySlice(PyIndex(data.cvel, payload_body_id), 3, 6)
       \o Block(q1_body_id) \o Block(q2_body_id) \o last_action

GetObs(data, last_action, target) ==
  LET payload_pos == PyIndex(data.xpos, payload_body_id)
      payload_linvel == PySlice(PyIndex(data.cvel, payload_body_id), 3, 6)
      payload_error == VecSub(target, payload_pos)
      quad1_pos == PyIndex(data.xpos, q1_body_id)
      quad1_quat == PyIndex(data.xquat, q1_body_id)
      quad1_linvel == PySlice(PyIndex(data.cvel, q1_body_id), 3, 6)
      quad1_angvel == PySlice(PyIndex(data.cvel, q1_body_id), 0, 3)
      quad1_rel == VecSub(quad1_pos, payload_pos)
      quad1_rot == Ravel(jp_R_from_quat(quad1_quat))
      quad1_linear_acc == PySlice(PyIndex(data.cacc, q1_body_id), 3, 6)
      quad1_angular_acc == PySlice(PyIndex(data.cacc, q1_body_id), 0, 3)
      quad2_pos == PyIndex(data.xpos, q2_body_id)
      quad2_quat == PyIndex(data.xquat, q2_body_id)
      quad2_linvel == PySlice(PyIndex(data.cvel, q2_body_id), 3, 6)
      quad2_angvel == PySlice(PyIndex(data.cvel, q2_body_id), 0, 3)
      quad2_rel == VecSub(quad2_pos, payload_pos)
      quad2_rot == Ravel(jp_R_from_quat(quad2_quat))
      quad2_linear_acc == PySlice(PyIndex(data.cacc, q2_body_id), 3, 6)
      quad2_angular_acc == PySlice(PyIndex(data.cacc, q2_body_id), 0, 3)
  IN payload_error \o payload_linvel
       \o quad1_rel \o quad1_rot \o quad1_linvel \o quad1_angvel
       \o quad1_linear_acc \o quad1_angular_acc
       \o quad2_rel \o quad2_rot \o quad2_linvel \o quad2_angvel
       \o quad2_linear_acc \o quad2_angular_acc
       \o last_action

(***************************************************************************)
(* MultiQuadEnv.calc_reward.  action is the thrust command (units of 1e-8),*)
(* last_action a raw action (units of 1e-3, so 1e5 units of 1e-8 each).    *)
(***************************************************************************)
BoolNum(b) == IF b THEN 1 ELSE 0

\* the terms of the reward, named as in calc_reward
payload_error(o) == PySlice(PySlice(o, 0, 6), 0, 3)

payload_linvel(o) == PySlice(PySlice(o, 0, 6), 3, 6)

linvel_penalty(o) == Norm(payload_linvel(o))

distance_reward(o) ==
  LET dis == Norm(payload_error(o))
      z_error == Abs(payload_error(o)[3])
  IN (One - dis + ExpNeg(10 * dis)) + ExpNeg(10 * z_error) - (z_error * z_error) \div One

\* the 1e-6 floor only binds for a zero vector, whose dot product is 0
velocity_towards_target(o) ==
  LET norm_error == Max(Norm(payload_error(o)), 1)
      norm_linvel == Max(Norm(payload_linvel(o)), 1)
  IN (Dot(payload_error(o), payload_linvel(o)) * One) \div (norm_error * norm_linvel)

quad1_obs(o) == PySlice(o, 6, 30)

quad2_obs(o) == PySlice(o, 30, 54)

safe_distance_reward(o) ==
  LET quad_distance ==
        Norm(VecSub(PySlice(quad1_obs(o), 0, 3), PySlice(quad2_obs(o), 0, 3)))
  IN Clip(((quad_distance - 110) * One) \div (150 - 110), 0, One)

collision_penalty(collision) == 5000 * BoolNum(collision)

out_of_bounds_penalty(out_of_bounds) == 50000 * BoolNum(out_of_bounds)

smooth_action_penalty(action, last_action) ==
  Mean([i \in 1..Len(action) |->
          Abs(action[i] - last_action[i] * 100000) \div max_thrust])

action_energy_penalty(action) ==
  Mean([i \in 1..Len(action) |-> Abs(action[i])]) \div max_thrust

up_reward(angle_q1, angle_q2) == ExpNeg(Abs(angle_q1)) + ExpNeg(Abs(angle_q2))

\* norm(a)**2 + norm(b)**2, scaled by 0.1
TenthSumSq(a, b) ==
  LET na == Norm(a)
      nb == Norm(b)
  IN ((na * na) \div One + (nb * nb) \div One) \div 10

ang_vel_penalty(o) ==
  LET ang_vel_q1 == PySlice(quad1_obs(o), 15, 18)
      ang_vel_q2 == PySlice(quad2_obs(o), 15, 18)
  IN TenthSumSq(ang_vel_q1, ang_vel_q2)

linvel_quad_penalty(o) ==
  LET linvel_q1 == PySlice(quad1_obs(o), 9, 12)
      linvel_q2 == PySlice(quad2_obs(o), 9, 12)
  IN TenthSumSq(linvel_q1, linvel_q2)

calc_reward(o, sim_time, collision, out_of_bounds, action, angle_q1, angle_q2, last_action, target, data) ==
  (10 * distance_reward(o)
     + safe_distance_reward(o)
     + velocity_towards_target(o)
     + up_reward(angle_q1, angle_q2)
     - 10 * linvel_penalty(o)
     - collision_penalty(collision)
     - out_of_bounds_penalty(out_of_bounds)
     - 2 * smooth_action_penalty(action, last_action)
     - action_energy_penalty(action)
     - ang_vel_penalty(o)
     - 5 * linvel_quad_penalty(o)) \div 25

(***************************************************************************)
(* MultiQuadEnv.__init__: the body ids cached from the scene.              *)
(***************************************************************************)
Construct(sc) ==
  /\ scene = sc
  /\ payload_body_id = mj_name2id(sc, "payload")
  /\ q1_body_id = mj_name2id(sc, "q0_cf2")
  /\ q2_body_id = mj_name2id(sc, "q1_cf2")

NoReward == [stage |-> "idle"]

\* no State exists before the first reset
NoState ==
  /\ phase = "UNINITIALIZED"
  /\ pipeline_state = NoSnapshot
  /\ obs = <<>>
  /\ reward = 0
  /\ done = 0
  /\ metrics = [time |-> 0, reward |-> 0]
  /\ applied = <<>>
  /\ action_scaled = <<>>
  /\ resetLog = [seen |-> {}, again |-> FALSE]

(***************************************************************************)
(* MultiQuadEnv.reset                                                      *)
(***************************************************************************)
\* reset drawing from a stream that the elapsed time of the episode advances
ResetStateStateful(rng) ==
  LET keys == RandomSplit(rng + pipeline_state.time, 3)
      noise == RandomUniform(keys[2], Nq(scene), -_reset_noise_scale, _reset_noise_scale)
      qpos == [i \in 1..Nq(scene) |-> Qpos0(scene)[i] + noise[i]]
      qvel == RandomUniform(keys[3], Nq(scene), -_reset_noise_scale, _reset_noise_scale)
      data == pipeline_init(scene, qpos, qvel)
  IN [pipeline_state |-> data, obs |-> GetObs(data, Zeros(nu), target_position),
      reward |-> 0, done |-> 0, metrics |-> [time |-> data.time, reward |-> 0]]

ResetState(rng) ==
  LET keys == RandomSplit(rng, 3)
      rng1 == keys[2]
      rng2 == keys[3]
      noise == RandomUniform(rng1, Nq(scene), -_reset_noise_scale, _reset_noise_scale)
      qpos == [i \in 1..Nq(scene) |-> Qpos0(scene)[i] + noise[i]]
      qvel == RandomUniform(rng2, Nq(scene), -_reset_noise_scale, _reset_noise_scale)
      data == pipeline_init(scene, qpos, qvel)
      last_action == Zeros(nu)
      o == GetObs(data, last_action, target_position)
  IN [pipeline_state |-> data, obs |-> o, reward |-> 0, done |-> 0,
      metrics |-> [time |-> data.time, reward |-> 0]]

ResetCore(rng) ==
  LET s == ResetState(rng)
  IN /\ phase' = "RESET"
     /\ pipeline_state' = s.pipeline_state
     /\ obs' = s.obs
     /\ reward' = s.reward
     /\ done' = s.done
     /\ metrics' = s.metrics
     /\ applied' = <<>>
     /\ action_scaled' = <<>>
     /\ UNCHANGED <<envVars, rw>>

Reset(rng) == ResetCore(rng) /\ UNCHANGED resetLog

\* reset, with the handle and the returned state recorded, and a note of
\* whether some handle has been given to reset more than once
ResetLogged(rng) ==
  /\ ResetCore(rng)
  /\ resetLog' =
       [seen |-> resetLog.seen \cup
                   {<<rng, [pipeline_state |-> pipeline_state', obs |-> obs',
                            reward |-> reward', done |-> done', metrics |-> metrics']>>},
        again |-> resetLog.again \/ (\E e \in resetLog.seen : e[1] = rng)]

(***************************************************************************)
(* MultiQuadEnv.step                                                       *)
(***************************************************************************)
ConstVec(v) == [i \in 1..nu |-> v]

\* raw actions a policy may give: a corner of the range, and a mixed one
\* with a component out of range
Actions == { ConstVec(-1000),
             <<1000, -1000, 500, -500, 0, 250, 1500, 1000>> }

\* state.obs[-(self.sys.nu+1):-1]
PrevLastAction(o) == PySlice(o, -(nu + 1), -1)

\* the scaling without the shift of the action into [0, 2]
ScaleActionNoShift(action) == [i \in 1..Len(action) |-> (action[i] * max_thrust) \div 2]

\* 0.5 * (action + 1.0) * self.max_thrust
ScaleAction(action) == [i \in 1..Len(action) |-> ((action[i] + One) * max_thrust) \div 2]

TiltAngle(data, id) ==
  jp_angle_between(Column2(jp_R_from_quat(PyIndex(data.xquat, id))), <<0, 0, 1000>>)

QuadDistance(data) ==
  Norm(VecSub(PyIndex(data.xpos, q1_body_id), PyIndex(data.xpos, q2_body_id)))

Collision(data) == QuadDistance(data) < 110

OutOfBounds(data) ==
  \/ Abs(TiltAngle(data, q1_body_id)) > Radians80
  \/ Abs(TiltAngle(data, q2_body_id)) > Radians80
  \/ PyIndex(data.xpos, q1_body_id)[3] < 50
  \/ PyIndex(data.xpos, q2_body_id)[3] < 50
  \/ PyIndex(data.xpos, q1_body_id)[3] < PyIndex(data.xpos, payload_body_id)[3]
  \/ PyIndex(data.xpos, q2_body_id)[3] < PyIndex(data.xpos, payload_body_id)[3]
  \/ PyIndex(data.xpos, payload_body_id)[3] < 50

\* termination that forgets the collision
DoneNoCollision(collision, out_of_bounds, time) ==
  BoolNum(out_of_bounds \/ time > MaxTimeTicks)

\* termination that forgets the time limit
DoneNoTimeout(collision, out_of_bounds, time) ==
  BoolNum(out_of_bounds \/ collision)

\* termination that sees the time limit only on the step that crosses it
DoneTimeoutOnce(collision, out_of_bounds, time) ==
  BoolNum(out_of_bounds \/ collision
            \/ (time > MaxTimeTicks /\ time <= MaxTimeTicks + n_frames))

\* logical_or(logical_or(out_of_bounds, collision), time > max_time) * 1.0
Done(collision, out_of_bounds, time) ==
  BoolNum(out_of_bounds \/ collision \/ time > MaxTimeTicks)

Step(action) ==
  /\ phase # "UNINITIALIZED"
  /\ pipeline_state.time < MaxSteps * n_frames
  /\ \E prev_last_action \in {PrevLastAction(obs)}, scaled \in {ScaleAction(action)} :
       \E data \in pipeline_step(scene, pipeline_state, scaled) :
         \E angle_q1 \in {TiltAngle(data, q1_body_id)},
            angle_q2 \in {TiltAngle(data, q2_body_id)},
            collision \in {Collision(data)},
            out_of_bounds \in {OutOfBounds(data)},
            o \in {GetObs(data, prev_last_action, target_position)} :
           \E r \in {calc_reward(o, data.time, collision, out_of_bounds, scaled,
                                 angle_q1, angle_q2, prev_last_action,
                                 target_position, data)} :
             /\ pipeline_state' = data
             /\ obs' = o
             /\ reward' = r
             /\ done' = Done(collision, out_of_bounds, data.time)
             /\ metrics' = [time |-> data.time, reward |-> r]
             /\ action_scaled' = scaled
  /\ applied' = IF Len(applied) < 2 THEN Append(applied, action)
                ELSE <<applied[2], action>>
  /\ phase' = "RUNNING"
  /\ UNCHANGED <<envVars, resetLog, rw>>

(***************************************************************************)
(* Specifications.                                                         *)
(***************************************************************************)
\* the environment built on the shipped scene, driven by any caller
Init == Construct(ShippedScene) /\ NoState /\ rw = NoReward

Next ==
  \/ \E rng \in Keys : Reset(rng)
  \/ \E action \in Actions : Step(action)

Spec == Init /\ [][Next]_vars

\* the environment built on any scene
InitScene == (\E sc \in Scenes : Construct(sc)) /\ NoState /\ rw = NoReward

SpecScene == InitScene /\ [][Next]_vars

\* the environment with its resets recorded
NextDet ==
  \/ \E rng \in Keys : ResetLogged(rng)
  \/ \E action \in Actions : Step(action)

SpecDet == Init /\ [][NextDet]_vars

(***************************************************************************)
(* calc_reward as a pure function: inputs drawn from a bounded set.        *)
(***************************************************************************)
RewardScenarios ==
  { Scenario(pz, gap, attitude, moving) :
      pz \in {800, 1000}, gap \in {100, 130, 150, 400},
      attitude \in {"level", "tilted"}, moving \in BOOLEAN }

RewardInputs ==
  { [stage |-> "in",
     obs |-> GetObs(Snapshot(ShippedScene, scen, 1), last, target_position),
     sim_time |-> 1,
     collision |-> c, out_of_bounds |-> b,
     action |-> ScaleAction(a),
     angle_q1 |-> ang, angle_q2 |-> 0,
     last_action |-> last,
     data |-> Snapshot(ShippedScene, scen, 1),
     reward |-> 0] :
      scen \in RewardScenarios, c \in BOOLEAN, b \in BOOLEAN,
      a \in {ConstVec(-1000), ConstVec(1000)},
      ang \in {0, 500}, last \in {Zeros(nu), ConstVec(1000)} }

EvalReward ==
  /\ rw.stage = "in"
  /\ rw' = [rw EXCEPT !.stage = "out",
                      !.reward = calc_reward(rw.obs, rw.sim_time, rw.collision,
                                             rw.out_of_bounds, rw.action,
                                             rw.angle_q1, rw.angle_q2,
                                             rw.last_action, target_position, rw.data)]
  /\ UNCHANGED <<envVars, phase, pipeline_state, obs, reward, done, metrics,
                 applied, action_scaled, resetLog>>

InitReward == Construct(ShippedScene) /\ NoState /\ rw \in RewardInputs

SpecReward == InitReward /\ [][EvalReward]_vars

(***************************************************************************)
(* Properties.                                                             *)
(***************************************************************************)
\* control steps taken since the last reset
StepsDone == pipeline_state.time \div n_frames

\* the previous-action field of an observation: offsets 54-62
ObsTail(o) == SubSeq(o, 55, 62)

\* the episode was just stepped
IsStep == phase # "UNINITIALIZED" /\ phase' = "RUNNING"

Pos(id) == PyIndex(pipeline_state.xpos, id)

\* squared distance between the two agents of the current snapshot
AgentDistSq == Dot(VecSub(Pos(q1_body_id), Pos(q2_body_id)),
                   VecSub(Pos(q1_body_id), Pos(q2_body_id)))

TimedOut == pipeline_state.time > MaxTimeTicks

\* C1: after the n-th step since reset the previous-action field of the
\* observation is the action given to step n-1, and the zero vector for n = 1.
C1_PreviousActionLag ==
  phase = "RUNNING" =>
    ObsTail(obs) = IF StepsDone = 1 THEN Zeros(nu) ELSE applied[Len(applied) - 1]

\* C2: the termination flag is 0 or 1; it is 0 after reset; after a step it is
\* 1 exactly when the agents of the new snapshot are closer than 0.11, or the
\* snapshot is out of bounds, or its elapsed time exceeds max_time.
C2_TerminationFlag ==
  /\ done \in {0, 1}
  /\ phase = "RESET" => done = 0
  /\ phase = "RUNNING" =>
       (done = 1 <=> (AgentDistSq < 110 * 110 \/ OutOfBounds(pipeline_state) \/ TimedOut))

\* a step ended the episode by a collision alone
C2_Witness ==
  /\ phase = "RUNNING" /\ done = 1
  /\ AgentDistSq < 110 * 110
  /\ ~OutOfBounds(pipeline_state) /\ ~TimedOut

\* C3 as stated: a step taken from a state whose termination flag is 1
\* returns termination flag 1.
C3_TerminatedAbsorbing ==
  [][(IsStep /\ phase = "RUNNING" /\ done = 1) => done' = 1]_vars

\* C3 amended: a step never re-initializes the episode (elapsed time strictly
\* grows and the state is never a reset state), and a termination flag that
\* is 1 with the time limit exceeded is 1 after every later step.
C3_TimeoutAbsorbing ==
  [][IsStep =>
       /\ pipeline_state'.time > pipeline_state.time
       /\ (done = 1 /\ TimedOut) => done' = 1]_vars

\* a second step after the time limit, with no collision and in bounds
C3_Witness ==
  /\ phase = "RUNNING" /\ done = 1
  /\ pipeline_state.time >= MaxTimeTicks + 2 * n_frames
  /\ ~Collision(pipeline_state) /\ ~OutOfBounds(pipeline_state)

Golden ==
  /\ rw.stage = "out"
  /\ SubSeq(rw.obs, 1, 6) = Zeros(6)
  /\ SubSeq(rw.obs, 10, 18) = <<1000, 0, 0, 0, 1000, 0, 0, 0, 1000>>
  /\ SubSeq(rw.obs, 34, 42) = <<1000, 0, 0, 0, 1000, 0, 0, 0, 1000>>
  /\ SubSeq(rw.obs, 19, 24) = Zeros(6)
  /\ SubSeq(rw.obs, 43, 48) = Zeros(6)
  /\ Dot(VecSub(SubSeq(rw.obs, 7, 9), SubSeq(rw.obs, 31, 33)),
         VecSub(SubSeq(rw.obs, 7, 9), SubSeq(rw.obs, 31, 33))) = 150 * 150
  /\ ~rw.collision /\ ~rw.out_of_bounds
  /\ rw.action = Zeros(nu) /\ rw.last_action = Zeros(nu)
  /\ rw.angle_q1 = 0 /\ rw.angle_q2 = 0

\* C5: in the golden scenario distance_reward = 3, safe_distance_reward = 1,
\* velocity_towards_target = 0, up_reward = 2, every penalty is 0 and the
\* reward is 1.32.
C5_GoldenReward ==
  Golden =>
    /\ distance_reward(rw.obs) = 3000
    /\ safe_distance_reward(rw.obs) = 1000
    /\ velocity_towards_target(rw.obs) = 0
    /\ up_reward(rw.angle_q1, rw.angle_q2) = 2000
    /\ linvel_penalty(rw.obs) = 0
    /\ collision_penalty(rw.collision) = 0
    /\ out_of_bounds_penalty(rw.out_of_bounds) = 0
    /\ smooth_action_penalty(rw.action, rw.last_action) = 0
    /\ action_energy_penalty(rw.action) = 0
    /\ ang_vel_penalty(rw.obs) = 0
    /\ linvel_quad_penalty(rw.obs) = 0
    /\ rw.reward = 1320

\* C6: the command handed to the engine is 0.5*(action+1)*max_thrust in every
\* component, unclamped; components of actions in [-1,1] give thrusts in
\* [0, max_thrust], with -1, 0 and 1 giving 0, max_thrust/2 and max_thrust.
C6_ThrustScaling ==
  phase = "RUNNING" =>
    LET a == applied[Len(applied)]
        full == max_thrust * One
    IN /\ Len(action_scaled) = Len(a)
       /\ \A i \in 1..Len(a) :
            /\ 2 * action_scaled[i] = (a[i] + One) * max_thrust
            /\ (a[i] >= -One /\ a[i] <= One) =>
                 (action_scaled[i] >= 0 /\ action_scaled[i] <= full)
            /\ a[i] = -One => action_scaled[i] = 0
            /\ a[i] = One => action_scaled[i] = full
            /\ a[i] = 0 => 2 * action_scaled[i] = full
            /\ a[i] > One => action_scaled[i] > full

\* a step was given an action with components -1, 0, 1 and one above 1
C6_Witness ==
  /\ phase = "RUNNING"
  /\ \E i, j, k, l \in 1..nu :
       /\ applied[Len(applied)][i] = -One
       /\ applied[Len(applied)][j] = 0
       /\ applied[Len(applied)][k] = One
       /\ applied[Len(applied)][l] > One

\* C7: every reset with the same handle returned the same state, whatever
\* happened before it, with reward 0, termination flag 0, time 0 and a zero
\* previous action.
C7_ResetDeterministic ==
  /\ \A e1, e2 \in resetLog.seen : e1[1] = e2[1] => e1[2] = e2[2]
  /\ \A e \in resetLog.seen :
       /\ e[2].reward = 0 /\ e[2].done = 0
       /\ e[2].pipeline_state.time = 0
       /\ ObsTail(e[2].obs) = Zeros(nu)

\* a handle was given to reset again, and the episode was stepped twice since
C7_Witness ==
  /\ resetLog.again
  /\ phase = "RUNNING" /\ StepsDone >= 2

\* C8: an environment that reset or step has worked on holds no sentinel
\* (not-found) body id.
C8_NoSentinelId ==
  phase # "UNINITIALIZED" =>
    (payload_body_id >= 0 /\ q1_body_id >= 0 /\ q2_body_id >= 0)

\* C9: the previous action step extracts from the current observation is the
\* observation's previous-action field, offsets 54-62.
C9_PrevActionIsTail ==
  phase # "UNINITIALIZED" => PrevLastAction(obs) = ObsTail(obs)

\* C10: every step advances the elapsed time by one control interval, a reset
\* state has time 0, and from step max_time*policy_freq + 1 on the
\* termination flag is 1.
C10_EpisodeTerminates ==
  /\ [][IsStep => pipeline_state'.time = pipeline_state.time + sim_steps_per_action]_vars
  /\ [](phase = "RESET" => pipeline_state.time = 0)
  /\ [](phase = "RUNNING" /\ StepsDone >= max_time * policy_freq + 1 => done = 1)

\* the step that crosses the time limit, with no collision and in bounds
C10_Witness ==
  /\ phase = "RUNNING" /\ done = 1
  /\ StepsDone = max_time * policy_freq + 1
  /\ ~Collision(pipeline_state) /\ ~OutOfBounds(pipeline_state)

====
